---- MODULE Spec2Model ----
(***************************************************************************)
(* adsync: one-shot synchronisation of a directory group's membership with *)
(* the user accounts of an organisational unit.  The program lists the     *)
(* accounts (listADUsers), lists the group's members (listGroupUsers) and  *)
(* adds every account that is not a member (synchronizeGroup calling       *)
(* addUserToGroup).  Every directory call (DialURL, Bind, Search, Modify)  *)
(* is one step of the model and may fail; a failure panics, the panic      *)
(* unwinds through the deferred l.Close() and ends the process.            *)
(*                                                                         *)
(* Identifiers are sequences of character codes so that strings.ToUpper is *)
(* a real conversion.  A search result is a sequence of entries, an entry  *)
(* a sequence of attributes, an attribute a sequence of values.            *)
(***************************************************************************)
EXTENDS Integers, Sequences, FiniteSets, TLC

\* ------------------------------------------------------------- bounds
MaxUsers == 3
MaxMembers == 2
MaxRuns == 2

\* "al", "Al", "bo", "cy" as character codes
Names == { <<97, 108>>, <<65, 108>>, <<98, 111>>, <<99, 121>> }

SeqsUpTo(S, n) == UNION { [1..k -> S] : k \in 0..n }

\* An entry of the account search: no attribute at all, or the one requested
\* attribute (distinguishedName) with its value.
UserEntries == { <<>> } \cup { << <<n>> >> : n \in Names }

\* The values of a directory attribute form a set, and the entries of a
\* search have distinct distinguished names: no value occurs twice.
NoRepeat(f) == \A a \in 1..Len(f) : \A b \in 1..Len(f) : a # b => f[a] # f[b]

DistinctNames(entries) ==
    \A a \in 1..Len(entries) : \A b \in 1..Len(entries) :
        (a # b /\ entries[a] # <<>>) => entries[a] # entries[b]

VARIABLES
    dirUsers,        \* directory: entries the account search returns
    groupExists,     \* directory: the group search matches an entry
    dirMembers,      \* directory: values of the group's member attribute
    loggingEnabled,  \* config.Logging.Enabled (errorLogger/infoLogger non-nil)
    pc,              \* position of the process
    adUsers,         \* global adUsers
    groupUsers,      \* global groupUsers
    i,               \* position of the range loop of synchronizeGroup
    openSessions,    \* connections dialled and not yet closed
    err,             \* the panic value that ended the process, or "none"
    log,             \* lines this run appended to the log file
    trace,           \* history: directory calls issued in this run
    run,             \* history: number of the run (process invocation)
    prevDone,        \* history: the previous run returned from main normally
    membersAtStart   \* history: dirMembers when this run started

vars == << dirUsers, groupExists, dirMembers, loggingEnabled, pc, adUsers,
           groupUsers, i, openSessions, err, log, trace, run, prevDone,
           membersAtStart >>

directory == << dirUsers, groupExists >>

\* ------------------------------------------------------------- helpers

\* strings.ToUpper on one character and on a string
UpperChar(c) == IF c \in 97..122 THEN c - 32 ELSE c

ToUpperIdentity(s) == s

ToUpper(s) == [k \in 1..Len(s) |-> UpperChar(s[k])]

\* x.Attributes[0].Values[0] is in range
IndexOK(entry) == Len(entry) > 0 /\ Len(entry[1]) > 0

RECURSIVE GoodPrefixLen(_)
\* number of leading entries the range loop of listADUsers reads before an
\* index is out of range
GoodPrefixLen(entries) ==
    IF entries = <<>> \/ ~IndexOK(Head(entries)) THEN 0
    ELSE 1 + GoodPrefixLen(Tail(entries))

\* the append loop of listADUsers over the first n entries
AppendUsers(users, entries, n) ==
    users \o [k \in 1..n |-> ToUpper(entries[k][1][1])]

\* the append loop of listGroupUsers over the values of the member attribute
AppendMembers(members, values) ==
    members \o [k \in 1..Len(values) |-> ToUpper(values[k])]

\* what the group search returns: the matching entries; an entry carries the
\* member attribute only when it has a value
GroupSearchResult ==
    IF ~groupExists THEN <<>>
    ELSE IF dirMembers = <<>> THEN << <<>> >>
    ELSE << << dirMembers >> >>

\* the inner loop of synchronizeGroup
FoundFirstOnly(x) == groupUsers # <<>> /\ groupUsers[1] = x

Found(x) == \E k \in 1..Len(groupUsers) : groupUsers[k] = x

\* the loop variable x of synchronizeGroup at position k
LoopVarReversed(k) == adUsers[Len(adUsers) - k + 1]

LoopVar(k) == adUsers[k]

\* deferred l.Close()
CloseForgotten(n) == n

Close(n) == n - 1

\* len(result.Entries) > 0
NonEmptyAlways(entries) == Len(entries) >= 0

NonEmpty(entries) == Len(entries) > 0

\* modifyReq.Add("member", []string{name}) applied by the server
ModifyDropped(members, name) == members

ModifyAdd(members, name) == Append(members, name)

Step(op, step, ok, pos, name) ==
    [op |-> op, step |-> step, ok |-> ok, pos |-> pos, name |-> name]

\* writeInfo / errorLogger.Panic writing a line
InfoLine(l, msg) == IF loggingEnabled THEN Append(l, <<"INFO", msg>>) ELSE l

ErrorLine(l, kind) == IF loggingEnabled THEN Append(l, <<"ERROR", kind>>) ELSE l

\* a panic unwinding to the top of main: deferred Close runs when registered
Panic(kind, deferred) ==
    /\ pc' = "aborted"
    /\ err' = kind
    /\ openSessions' = IF deferred THEN Close(openSessions) ELSE openSessions

\* writeError(err)
WriteError(l, kind, deferred) ==
    /\ log' = ErrorLine(l, kind)
    /\ Panic(kind, deferred)

\* ------------------------------------------------------------- initial state

Init ==
    /\ dirUsers \in { u \in SeqsUpTo(UserEntries, MaxUsers) : DistinctNames(u) }
    /\ groupExists \in BOOLEAN
    /\ dirMembers \in { m \in SeqsUpTo(Names, MaxMembers) : NoRepeat(m) }
    /\ (~groupExists => dirMembers = <<>>)
    /\ loggingEnabled \in BOOLEAN
    /\ pc = "listAD_dial"
    /\ adUsers = <<>>
    /\ groupUsers = <<>>
    /\ i = 1
    /\ openSessions = 0
    /\ err = "none"
    /\ log = <<>>
    /\ trace = <<>>
    /\ run = 1
    /\ prevDone = FALSE
    /\ membersAtStart = dirMembers

\* ------------------------------------------------------------- listADUsers

\* main: writeInfo("Loading the list of users from Active Directory");
\* listADUsers: ldap.DialURL
ListADDial ==
    /\ pc = "listAD_dial"
    /\ \E ok \in BOOLEAN :
         LET l1 == InfoLine(log, "loading users") IN
         /\ trace' = Append(trace, Step("listADUsers", "dial", ok, 0, <<>>))
         /\ IF ok
            THEN /\ pc' = "listAD_bind"
                 /\ openSessions' = openSessions + 1
                 /\ log' = l1
                 /\ UNCHANGED err
            ELSE WriteError(l1, "connect", FALSE)
    /\ UNCHANGED << directory, dirMembers, loggingEnabled, adUsers, groupUsers,
                    i, run, prevDone, membersAtStart >>

\* listADUsers: l.Bind
ListADBind ==
    /\ pc = "listAD_bind"
    /\ \E ok \in BOOLEAN :
         /\ trace' = Append(trace, Step("listADUsers", "bind", ok, 0, <<>>))
         /\ IF ok
            THEN /\ pc' = "listAD_search"
                 /\ UNCHANGED << openSessions, log, err >>
            ELSE WriteError(log, "bind", TRUE)
    /\ UNCHANGED << directory, dirMembers, loggingEnabled, adUsers, groupUsers,
                    i, run, prevDone, membersAtStart >>

\* listADUsers: l.Search, the loop over result.Entries, the return
ListADSearch ==
    /\ pc = "listAD_search"
    /\ \E ok \in BOOLEAN :
         /\ trace' = Append(trace, Step("listADUsers", "search", ok, 0, <<>>))
         /\ IF ~ok
            THEN /\ WriteError(log, "search", TRUE)
                 /\ UNCHANGED adUsers
            ELSE LET n == GoodPrefixLen(dirUsers) IN
                 IF NonEmpty(dirUsers)
                 THEN /\ adUsers' = AppendUsers(adUsers, dirUsers, n)
                      /\ IF n = Len(dirUsers)
                         THEN /\ log' = InfoLine(log, "records retrieved")
                              /\ openSessions' = Close(openSessions)
                              /\ pc' = "listGroup_dial"
                              /\ UNCHANGED err
                         ELSE /\ Panic("index", TRUE)
                              /\ UNCHANGED log
                 ELSE /\ WriteError(log, "empty", TRUE)
                      /\ UNCHANGED adUsers
    /\ UNCHANGED << directory, dirMembers, loggingEnabled, groupUsers,
                    i, run, prevDone, membersAtStart >>

\* ------------------------------------------------------------- listGroupUsers

\* main: writeInfo("Loading the list of users in group");
\* listGroupUsers: ldap.DialURL
ListGroupDial ==
    /\ pc = "listGroup_dial"
    /\ \E ok \in BOOLEAN :
         LET l1 == InfoLine(log, "loading group") IN
         /\ trace' = Append(trace, Step("listGroupUsers", "dial", ok, 0, <<>>))
         /\ IF ok
            THEN /\ pc' = "listGroup_bind"
                 /\ openSessions' = openSessions + 1
                 /\ log' = l1
                 /\ UNCHANGED err
            ELSE WriteError(l1, "connect", FALSE)
    /\ UNCHANGED << directory, dirMembers, loggingEnabled, adUsers, groupUsers,
                    i, run, prevDone, membersAtStart >>

\* listGroupUsers: l.Bind
ListGroupBind ==
    /\ pc = "listGroup_bind"
    /\ \E ok \in BOOLEAN :
         /\ trace' = Append(trace, Step("listGroupUsers", "bind", ok, 0, <<>>))
         /\ IF ok
            THEN /\ pc' = "listGroup_search"
                 /\ UNCHANGED << openSessions, log, err >>
            ELSE WriteError(log, "bind", TRUE)
    /\ UNCHANGED << directory, dirMembers, loggingEnabled, adUsers, groupUsers,
                    i, run, prevDone, membersAtStart >>

\* listGroupUsers: l.Search, the loop over
\* result.Entries[0].Attributes[0].Values, the return;
\* main: writeInfo("Synchronizing group membership")
ListGroupSearch ==
    /\ pc = "listGroup_search"
    /\ \E ok \in BOOLEAN :
         /\ trace' = Append(trace, Step("listGroupUsers", "search", ok, 0, <<>>))
         /\ IF ~ok
            THEN /\ WriteError(log, "search", TRUE)
                 /\ UNCHANGED groupUsers
            ELSE LET res == GroupSearchResult IN
                 IF Len(res) > 0 /\ Len(res[1]) > 0
                 THEN /\ groupUsers' = AppendMembers(groupUsers, res[1][1])
                      /\ log' = InfoLine(InfoLine(log, "users in group"),
                                         "synchronizing")
                      /\ openSessions' = Close(openSessions)
                      /\ pc' = "sync"
                      /\ UNCHANGED err
                 ELSE /\ Panic("index", TRUE)
                      /\ UNCHANGED << log, groupUsers >>
    /\ UNCHANGED << directory, dirMembers, loggingEnabled, adUsers,
                    i, run, prevDone, membersAtStart >>

\* ------------------------------------------------------------- synchronizeGroup

\* one iteration of the range loop: the inner search, then either the next
\* iteration or the call of addUserToGroup(x); the return to main at the end
SynchronizeGroup ==
    /\ pc = "sync"
    /\ IF i > Len(adUsers)
       THEN pc' = "done" /\ UNCHANGED i
       ELSE IF Found(LoopVar(i))
            THEN i' = i + 1 /\ UNCHANGED pc
            ELSE pc' = "add_dial" /\ UNCHANGED i
    /\ UNCHANGED << directory, dirMembers, loggingEnabled, adUsers, groupUsers,
                    openSessions, err, log, trace, run, prevDone,
                    membersAtStart >>

\* ------------------------------------------------------------- addUserToGroup

\* addUserToGroup: ldap.DialURL
AddDial ==
    /\ pc = "add_dial"
    /\ \E ok \in BOOLEAN :
         /\ trace' = Append(trace,
                            Step("addUserToGroup", "dial", ok, i, LoopVar(i)))
         /\ IF ok
            THEN /\ pc' = "add_bind"
                 /\ openSessions' = openSessions + 1
                 /\ UNCHANGED << log, err >>
            ELSE WriteError(log, "connect", FALSE)
    /\ UNCHANGED << directory, dirMembers, loggingEnabled, adUsers, groupUsers,
                    i, run, prevDone, membersAtStart >>

\* addUserToGroup: l.Bind
AddBind ==
    /\ pc = "add_bind"
    /\ \E ok \in BOOLEAN :
         /\ trace' = Append(trace,
                            Step("addUserToGroup", "bind", ok, i, LoopVar(i)))
         /\ IF ok
            THEN /\ pc' = "add_modify"
                 /\ UNCHANGED << openSessions, log, err >>
            ELSE WriteError(log, "bind", TRUE)
    /\ UNCHANGED << directory, dirMembers, loggingEnabled, adUsers, groupUsers,
                    i, run, prevDone, membersAtStart >>

\* a modify failure downgraded to a log line: the loop goes on
AddModifySwallow ==
    /\ pc = "add_modify"
    /\ \E ok \in BOOLEAN :
         /\ trace' = Append(trace,
                            Step("addUserToGroup", "modify", ok, i, LoopVar(i)))
         /\ openSessions' = Close(openSessions)
         /\ i' = i + 1
         /\ pc' = "sync"
         /\ IF ok
            THEN /\ dirMembers' = ModifyAdd(dirMembers, LoopVar(i))
                 /\ log' = InfoLine(log, "added to group")
                 /\ UNCHANGED err
            ELSE /\ log' = ErrorLine(log, "modify")
                 /\ err' = "modify"
                 /\ UNCHANGED dirMembers
    /\ UNCHANGED << directory, loggingEnabled, adUsers, groupUsers,
                    run, prevDone, membersAtStart >>

\* the added member is also recorded in groupUsers
AddModifyTracking ==
    /\ pc = "add_modify"
    /\ \E ok \in BOOLEAN :
         /\ trace' = Append(trace,
                            Step("addUserToGroup", "modify", ok, i, LoopVar(i)))
         /\ IF ok
            THEN /\ dirMembers' = ModifyAdd(dirMembers, LoopVar(i))
                 /\ groupUsers' = Append(groupUsers, LoopVar(i))
                 /\ log' = InfoLine(log, "added to group")
                 /\ openSessions' = Close(openSessions)
                 /\ i' = i + 1
                 /\ pc' = "sync"
                 /\ UNCHANGED err
            ELSE /\ WriteError(log, "modify", TRUE)
                 /\ UNCHANGED << dirMembers, i, groupUsers >>
    /\ UNCHANGED << directory, loggingEnabled, adUsers,
                    run, prevDone, membersAtStart >>

\* addUserToGroup: l.Modify, writeInfo, the return to the loop.  The server may
\* reject any modification (permissions, a value that is already a member) or
\* accept it.
AddModify ==
    /\ pc = "add_modify"
    /\ \E ok \in BOOLEAN :
         /\ trace' = Append(trace,
                            Step("addUserToGroup", "modify", ok, i, LoopVar(i)))
         /\ IF ok
            THEN /\ dirMembers' = ModifyAdd(dirMembers, LoopVar(i))
                 /\ log' = InfoLine(log, "added to group")
                 /\ openSessions' = Close(openSessions)
                 /\ i' = i + 1
                 /\ pc' = "sync"
                 /\ UNCHANGED err
            ELSE /\ WriteError(log, "modify", TRUE)
                 /\ UNCHANGED << dirMembers, i >>
    /\ UNCHANGED << directory, loggingEnabled, adUsers, groupUsers,
                    run, prevDone, membersAtStart >>

\* ------------------------------------------------------------- the next run

\* the batch job is started again: a new process with the same configuration
\* against the directory as the previous run left it; log holds the lines the
\* new process appends
Restart ==
    /\ pc \in {"done", "aborted"}
    /\ run < MaxRuns
    /\ pc' = "listAD_dial"
    /\ adUsers' = <<>>
    /\ groupUsers' = <<>>
    /\ i' = 1
    /\ openSessions' = 0
    /\ err' = "none"
    /\ trace' = <<>>
    /\ run' = run + 1
    /\ prevDone' = (pc = "done")
    /\ membersAtStart' = dirMembers
    /\ log' = <<>>
    /\ UNCHANGED << directory, dirMembers, loggingEnabled >>

Next ==
    \/ ListADDial
    \/ ListADBind
    \/ ListADSearch
    \/ ListGroupDial
    \/ ListGroupBind
    \/ ListGroupSearch
    \/ SynchronizeGroup
    \/ AddDial
    \/ AddBind
    \/ AddModify
    \/ Restart

Spec == Init /\ [][Next]_vars

\* ------------------------------------------------------------- properties

Range(f) == { f[k] : k \in 1..Len(f) }

IsAdd(s) == s.op = "addUserToGroup"

\* positions of trace where a call of addUserToGroup begins
CallSteps == { k \in 1..Len(trace) : IsAdd(trace[k]) /\ trace[k].step = "dial" }

\* the identifiers passed to addUserToGroup, in call order
CalledSeq ==
    LET dials == SelectSeq(trace, LAMBDA s : IsAdd(s) /\ s.step = "dial")
    IN  [k \in 1..Len(dials) |-> dials[k].name]

\* the identifiers of successful modifications, in order
AddedSeq ==
    LET mods == SelectSeq(trace, LAMBDA s : IsAdd(s) /\ s.step = "modify" /\ s.ok)
    IN  [k \in 1..Len(mods) |-> mods[k].name]

Missing(x) == x \notin Range(groupUsers)

Issued(op, step) == \E k \in 1..Len(trace) :
    trace[k].op = op /\ trace[k].step = step /\ trace[k].ok

\* two strings equal up to the case of their letters
SameIgnoringCase(a, b) ==
    /\ Len(a) = Len(b)
    /\ \A j \in 1..Len(a) :
         \/ a[j] = b[j]
         \/ a[j] \in 65..90 /\ b[j] = a[j] + 32
         \/ b[j] \in 65..90 /\ a[j] = b[j] + 32

\* C1: in a run without failure addUserToGroup is invoked on exactly the
\* identifiers of the Account Set that are not in the Group Member Set, and
\* in no run on an identifier that is in the Group Member Set.
C1_ProvisionsExactlyMissing ==
    /\ \A k \in CallSteps : trace[k].name \notin Range(groupUsers)
    /\ pc = "done" => Range(CalledSeq) = Range(adUsers) \ Range(groupUsers)

C1_Witness ==
    /\ pc = "done"
    /\ CalledSeq # <<>>
    /\ Range(adUsers) \cap Range(groupUsers) # {}

\* C2: provisioning calls happen one at a time in Account Set order: a call
\* for an earlier position has issued its modify and closed its session
\* before the call for a later position dials.
C2_SequentialInOrder ==
    /\ \A p \in CallSteps : \A q \in CallSteps :
         p < q =>
           /\ trace[p].pos < trace[q].pos
           /\ \E m \in (p + 1)..(q - 1) :
                trace[m] = Step("addUserToGroup", "modify", TRUE,
                                trace[p].pos, trace[p].name)
    /\ \A p \in CallSteps : trace[p].name = adUsers[trace[p].pos]
    /\ pc = "add_dial" => openSessions = 0
    /\ pc = "done" => CalledSeq = SelectSeq(adUsers, Missing)

C2_Witness ==
    /\ pc = "done"
    /\ Len(CalledSeq) >= 2
    /\ CalledSeq[1] # CalledSeq[2]
    /\ Len(adUsers) > Len(CalledSeq)

\* C3: every error is fatal: a failed directory step is the last one issued,
\* the process is aborted, no later missing account is attempted, and the
\* members added before the failure stay in the group.
C3_ErrorsAreFatal ==
    /\ err # "none" => pc = "aborted"
    /\ \A k \in 1..Len(trace) :
         ~trace[k].ok => k = Len(trace) /\ pc = "aborted"
    /\ dirMembers = membersAtStart \o AddedSeq

C3_Witness ==
    /\ pc = "aborted"
    /\ err = "modify"
    /\ Len(AddedSeq) = 1
    /\ \E j \in (i + 1)..Len(adUsers) : Missing(adUsers[j])

\* C4: a group without members yields an empty Group Member Set and the
\* run goes on to provision every account; listGroupUsers does not crash.
C4_EmptyGroupIsNoCrash ==
    (groupExists /\ membersAtStart = <<>>
       /\ Issued("listGroupUsers", "search"))
    => err # "index"

\* C5: an account search with zero entries raises the empty-result error
\* before the group is queried or any member is added.
C5_EmptyAccountsAbort ==
    (dirUsers = <<>> /\ Issued("listADUsers", "search"))
    => /\ pc = "aborted"
       /\ err = "empty"
       /\ \A k \in 1..Len(trace) : trace[k].op = "listADUsers"

C5_Witness ==
    /\ dirUsers = <<>>
    /\ Issued("listADUsers", "search")
    /\ groupExists

\* C6: after a run that completed, the next run against the same accounts
\* and the resulting membership calls addUserToGroup for nobody and leaves
\* the membership as it found it.
C6_Idempotent ==
    (run > 1 /\ prevDone)
    => /\ CallSteps = {}
       /\ dirMembers = membersAtStart

C6_Witness ==
    /\ run > 1
    /\ prevDone
    /\ pc = "done"
    /\ \E k \in 1..Len(dirMembers) : dirMembers[k] \notin Names

\* C7: a session is open only inside the operation that dialled it: at
\* most one at any time, and none between operations, after an abort or at
\* the end of the run.
C7_SessionsClosed ==
    /\ openSessions \in {0, 1}
    /\ pc \in {"listAD_dial", "listGroup_dial", "sync", "add_dial",
               "done", "aborted"} => openSessions = 0

C7_Witness ==
    /\ pc = "aborted"
    /\ err = "index"
    /\ Issued("listGroupUsers", "search")
    /\ openSessions = 0

\* C8: an account whose identifier differs from a group member value only
\* in letter case is treated as a member: addUserToGroup is not called
\* for it.
C8_CaseInsensitiveMembership ==
    \A k \in 1..Len(dirUsers) : \A m \in 1..Len(membersAtStart) :
        (IndexOK(dirUsers[k])
           /\ SameIgnoringCase(dirUsers[k][1][1], membersAtStart[m]))
        => \A p \in CallSteps : trace[p].pos # k

C8_Witness ==
    /\ pc = "done"
    /\ CallSteps # {}
    /\ \E k \in 1..Len(dirUsers) : \E m \in 1..Len(membersAtStart) :
         /\ dirUsers[k][1][1] # membersAtStart[m]
         /\ SameIgnoringCase(dirUsers[k][1][1], membersAtStart[m])

\* C9: with logging enabled every fatal error that ends the run is the
\* last line of the log, as an ERROR line; with logging disabled nothing is
\* written.
C9_FatalErrorsLogged ==
    pc = "aborted" =>
        IF loggingEnabled
        THEN log # <<>> /\ log[Len(log)] = <<"ERROR", err>>
        ELSE log = <<>>

\* C10: the Group Member Set is read once and never updated: in a run
\* without failure every position of the Account Set whose identifier is
\* absent from it is provisioned, so an absent identifier that occurs k
\* times is provisioned k times.
C10_OneCallPerMissingPosition ==
    /\ pc \in {"sync", "add_dial", "add_bind", "add_modify", "done"}
         => groupUsers = [k \in 1..Len(membersAtStart) |->
                             ToUpper(membersAtStart[k])]
    /\ pc = "done" =>
         /\ Cardinality(CallSteps)
              = Cardinality({ k \in 1..Len(adUsers) : Missing(adUsers[k]) })
         /\ \A x \in Range(adUsers) :
              Missing(x) =>
                Cardinality({ p \in CallSteps : trace[p].name = x })
                  = Cardinality({ k \in 1..Len(adUsers) : adUsers[k] = x })

C10_Witness ==
    /\ pc = "done"
    /\ \E x \in Range(adUsers) :
         /\ Missing(x)
         /\ Cardinality({ p \in CallSteps : trace[p].name = x }) = 2

====
